---- MODULE Spec2Model ----
(***************************************************************************)
(* jetpack/chart/utils.py: cosmetic helpers for matplotlib axes.           *)
(*                                                                         *)
(* The state is pyplot's registry of figures and axes (with its current    *)
(* figure and each figure's current axes) and, per axes, the attributes    *)
(* the helpers read or write: spine colours and bounds, ticks, tick        *)
(* labels, limits, tick position, tick direction, colours, font size.      *)
(*                                                                         *)
(* Coordinates are kept exactly, in units of 1/Unit: a tick at 2 is        *)
(* Pos(2) = 2 * Unit, and a padding factor is a number of Unit-ths, so     *)
(* factor * range is exact on whole-number ranges.                         *)
(*                                                                         *)
(* Spec follows the figure and axes handles from an empty pyplot, every    *)
(* function called with its defaults and with ax and fig given or not.     *)
(* SpecAx and SpecBounds follow one axes: SpecAx under every spine flag    *)
(* and tick direction, SpecBounds from every tick, label and spine-bound   *)
(* configuration up to MaxTicks ticks and under several padding factors.   *)
(***************************************************************************)
EXTENDS Integers, Sequences, FiniteSets, TLC

VARIABLES plt, art, last, calls

vars == <<plt, art, last, calls>>

\* ---------------------------------------------------------------- bounds

MaxFigs == 2
MaxAxes == 2
MaxCalls == 4
MaxTicks == 3

\* ------------------------------------------------------------- constants

\* Python's None, for a handle (figure and axes handles are 1, 2, ...).
None == 0
\* None for a value that may be a number or a pair (lower, upper, a spine's
\* bounds): the empty tuple; Some(v) is <<v>>.
NoVal == <<>>

\* The default factor of breathe, 0.05, is 1/Unit.
Unit == 20
Pos(n) == n * Unit

DefaultSize == 18
DefaultFactor == 1
DefaultColor == "#444444"
DefaultDirection == "out"

Sides == {"left", "right", "top", "bottom"}

\* nospines(left=False, bottom=False, top=True, right=True)
DefaultFlags == [left |-> FALSE, bottom |-> FALSE, top |-> TRUE, right |-> TRUE]
AllFlags == [Sides -> BOOLEAN]

\* ------------------------------------------------- matplotlib, as used

\* A new axes as matplotlib makes it: limits (0, 1), six ticks whose label
\* texts are still empty, <<>> (they are filled in when the figure is drawn),
\* all four spines drawn, no spine bounds, no font size of its own (NoVal),
\* rc defaults ("rc", "default") for the rest.
\* 0, 0.2, 0.4, 0.6, 0.8, 1
FreshTicks == [i \in 1..6 |-> (i - 1) * (Unit \div 5)]

FreshAxis ==
    [ spine_color |-> [s \in Sides |-> "k"],
      spine_bounds |-> [s \in Sides |-> NoVal],
      xticks |-> FreshTicks, yticks |-> FreshTicks,
      xlabels |-> [i \in 1..Len(FreshTicks) |-> <<>>],
      ylabels |-> [i \in 1..Len(FreshTicks) |-> <<>>],
      xfont |-> NoVal, yfont |-> NoVal,
      xlim |-> <<Pos(0), Pos(1)>>, ylim |-> <<Pos(0), Pos(1)>>,
      xpos |-> "default", ypos |-> "default",
      xdir |-> "rc", ydir |-> "rc",
      xtickcolor |-> "rc", ytickcolor |-> "rc",
      xlabelcolor |-> "rc", ylabelcolor |-> "rc" ]

Figures(P) == P.figs
Axes(P) == DOMAIN P.axfig

\* A world is pyplot's registry and the axes' attributes.
World(P, A) == [plt |-> P, art |-> A]

\* plt.figure(): a new figure, which becomes the current one.
plt_figure(W) ==
    LET f == Cardinality(W.plt.figs) + 1 IN
    [ W |-> [W EXCEPT !.plt = [ figs |-> W.plt.figs \cup {f},
                                axfig |-> W.plt.axfig,
                                gcf |-> f,
                                gca |-> [g \in W.plt.figs \cup {f} |->
                                           IF g = f THEN None ELSE W.plt.gca[g]] ]],
      val |-> f ]

\* fig.add_subplot(111): a new axes on fig, which becomes fig's current axes
\* (matplotlib as documented today; older releases handed back an axes
\* made earlier with the same arguments).
add_subplot(W, fig) ==
    LET a == Cardinality(DOMAIN W.plt.axfig) + 1 IN
    [ W |-> [ plt |-> [ figs |-> W.plt.figs,
                        axfig |-> [b \in DOMAIN W.plt.axfig \cup {a} |->
                                     IF b = a THEN fig ELSE W.plt.axfig[b]],
                        gcf |-> W.plt.gcf,
                        gca |-> [W.plt.gca EXCEPT ![fig] = a] ],
              art |-> [b \in DOMAIN W.art \cup {a} |->
                         IF b = a THEN FreshAxis ELSE W.art[b]] ],
      val |-> a ]

\* plt.gcf(): the current figure; one is made when there is none.
plt_gcf(W) ==
    IF W.plt.gcf = None THEN plt_figure(W) ELSE [W |-> W, val |-> W.plt.gcf]

\* plt.gca(): the current axes of the current figure; made when there is none.
plt_gca(W) ==
    LET r == plt_gcf(W) IN
    IF r.W.plt.gca[r.val] = None THEN add_subplot(r.W, r.val)
    ELSE [W |-> r.W, val |-> r.W.plt.gca[r.val]]

\* ax.get_figure()
get_figure(W, ax) == W.plt.axfig[ax]

\* str(tick): the text of a number is never empty; the empty text is <<>>.
str(t) == <<t>>
EmptyText == <<>>

\* -------------------------------------------------------- the wrappers

\* kwargs holds the caller's ax and fig; None stands for a key that is not
\* in kwargs.  A call result is the world after it, the kwargs the wrapped
\* function saw, what the function itself returned, and what the caller gets.
Kwargs(ax, fig) == [ax |-> ax, fig |-> fig]

\* plotwrapper.wrapper, up to the call of fun: create what is missing.
plotwrapper_kwargs(W, kw) ==
    IF kw.ax = None
    THEN LET r1 == IF kw.fig = None THEN plt_figure(W) ELSE [W |-> W, val |-> kw.fig]
             r2 == add_subplot(r1.W, r1.val)
         IN [W |-> r2.W, kw |-> Kwargs(r2.val, r1.val)]
    ELSE IF kw.fig = None
         THEN [W |-> W, kw |-> Kwargs(kw.ax, get_figure(W, kw.ax))]
         ELSE [W |-> W, kw |-> kw]

\* axwrapper.wrapper, up to the call of fun: bind to pyplot's current ones.
axwrapper_kwargs(W, kw) ==
    IF kw.ax = None
    THEN LET r1 == IF kw.fig = None THEN plt_gcf(W) ELSE [W |-> W, val |-> kw.fig]
             r2 == plt_gca(r1.W)
         IN [W |-> r2.W, kw |-> Kwargs(r2.val, r1.val)]
    ELSE IF kw.fig = None
         THEN [W |-> W, kw |-> Kwargs(kw.ax, get_figure(W, kw.ax))]
         ELSE [W |-> W, kw |-> kw]

\* The wrapper with `return fun(*args, **kwargs)` in place of its last two lines.
wrapper_return_fun(b, kw) == [W |-> b.W, kw |-> kw, fret |-> b.ret, ret |-> b.ret]

\* fun(*args, **kwargs); return kwargs['ax']: the function's own return
\* value (b.ret) is dropped.
wrapper_return(b, kw) == [W |-> b.W, kw |-> kw, fret |-> b.ret, ret |-> kw.ax]

\* What a function body hands back: the world and its return value.
Body(W, ax, A, ret) == [W |-> [W EXCEPT !.art[ax] = A], ret |-> ret]

\* ------------------------------------------------------- the functions

\* ax.set_xticks([]) / ax.set_yticks([]): no ticks, hence no tick labels.
set_xticks_none(A) == [A EXCEPT !.xticks = <<>>, !.xlabels = <<>>]
set_yticks_none(A) == [A EXCEPT !.yticks = <<>>, !.ylabels = <<>>]

setfontsize_body(W, kw, size) ==
    LET A == W.art[kw.ax]
        A1 == [A EXCEPT !.xlabels = [i \in 1..Len(A.xticks) |-> str(A.xticks[i])],
                        !.xfont = <<size>>]
        A2 == [A1 EXCEPT !.ylabels = [i \in 1..Len(A1.yticks) |-> str(A1.yticks[i])],
                         !.yfont = <<size>>]
    IN Body(W, kw.ax, A2, kw.ax)

setfontsize(W, kw, size) ==
    LET r == plotwrapper_kwargs(W, kw) IN
    wrapper_return(setfontsize_body(r.W, r.kw, size), r.kw)

noticks_body(W, kw) ==
    Body(W, kw.ax, set_yticks_none(set_xticks_none(W.art[kw.ax])), None)

noticks(W, kw) ==
    LET r == axwrapper_kwargs(W, kw) IN
    wrapper_return(noticks_body(r.W, r.kw), r.kw)

\* A loop that sets every spine: 'none' if flagged, drawn otherwise.
disable_spines_reset(A, disabled) ==
    [A EXCEPT !.spine_color = [key \in Sides |-> IF disabled[key] THEN "none" ELSE "k"]]

\* for key in disabled: if disabled[key]: ax.spines[key].set_color('none')
disable_spines(A, disabled) ==
    [A EXCEPT !.spine_color = [key \in Sides |->
                                 IF disabled[key] THEN "none" ELSE A.spine_color[key]]]

\* The tick positions of the two elif branches exchanged.
disable_xticks_swapped(A, disabled) ==
    IF disabled["top"] /\ disabled["bottom"] THEN set_xticks_none(A)
    ELSE IF disabled["top"] THEN [A EXCEPT !.xpos = "top"]
    ELSE IF disabled["bottom"] THEN [A EXCEPT !.xpos = "bottom"]
    ELSE A

disable_xticks(A, disabled) ==
    IF disabled["top"] /\ disabled["bottom"] THEN set_xticks_none(A)
    ELSE IF disabled["top"] THEN [A EXCEPT !.xpos = "bottom"]
    ELSE IF disabled["bottom"] THEN [A EXCEPT !.xpos = "top"]
    ELSE A

disable_yticks(A, disabled) ==
    IF disabled["left"] /\ disabled["right"] THEN set_yticks_none(A)
    ELSE IF disabled["left"] THEN [A EXCEPT !.ypos = "right"]
    ELSE IF disabled["right"] THEN [A EXCEPT !.ypos = "left"]
    ELSE A

nospines_body(W, kw, disabled) ==
    Body(W, kw.ax,
         disable_yticks(disable_xticks(disable_spines(W.art[kw.ax], disabled), disabled),
                        disabled),
         kw.ax)

nospines(W, kw, disabled) ==
    LET r == axwrapper_kwargs(W, kw) IN
    wrapper_return(nospines_body(r.W, r.kw, disabled), r.kw)

tickdir_body(W, kw, direction) ==
    Body(W, kw.ax, [W.art[kw.ax] EXCEPT !.xdir = direction, !.ydir = direction], kw.ax)

tickdir(W, kw, direction) ==
    LET r == axwrapper_kwargs(W, kw) IN
    wrapper_return(tickdir_body(r.W, r.kw, direction), r.kw)

setcolor_body(W, kw, color) ==
    Body(W, kw.ax,
         [W.art[kw.ax] EXCEPT !.xtickcolor = color, !.ytickcolor = color,
                              !.xlabelcolor = color, !.ylabelcolor = color],
         kw.ax)

setcolor(W, kw, color) ==
    LET r == axwrapper_kwargs(W, kw) IN
    wrapper_return(setcolor_body(r.W, r.kw, color), r.kw)

\* axis_map[axis]: ticks, labels, limits, spine_key
axis_map(A, axis) ==
    IF axis = "x"
    THEN [ticks |-> A.xticks, labels |-> A.xlabels, limits |-> A.xlim, spine_key |-> "bottom"]
    ELSE [ticks |-> A.yticks, labels |-> A.ylabels, limits |-> A.ylim, spine_key |-> "left"]

Min(a, b) == IF a < b THEN a ELSE b

\* The scan with `elif upper is None: upper = tick`: upper is the second
\* labelled tick, not the last.
RECURSIVE scan_ticks_second(_, _, _, _, _)
scan_ticks_second(ticks, labels, i, lower, upper) ==
    IF i > Min(Len(ticks), Len(labels)) THEN [lower |-> lower, upper |-> upper]
    ELSE IF labels[i] # EmptyText
         THEN IF lower = NoVal
              THEN scan_ticks_second(ticks, labels, i + 1, <<ticks[i]>>, upper)
              ELSE IF upper = NoVal
                   THEN scan_ticks_second(ticks, labels, i + 1, lower, <<ticks[i]>>)
                   ELSE scan_ticks_second(ticks, labels, i + 1, lower, upper)
         ELSE scan_ticks_second(ticks, labels, i + 1, lower, upper)

\* The scan with `upper = tick` for every labelled tick, the first included.
RECURSIVE scan_ticks_both(_, _, _, _, _)
scan_ticks_both(ticks, labels, i, lower, upper) ==
    IF i > Min(Len(ticks), Len(labels)) THEN [lower |-> lower, upper |-> upper]
    ELSE IF labels[i] # EmptyText
         THEN IF lower = NoVal
              THEN scan_ticks_both(ticks, labels, i + 1, <<ticks[i]>>, <<ticks[i]>>)
              ELSE scan_ticks_both(ticks, labels, i + 1, lower, <<ticks[i]>>)
         ELSE scan_ticks_both(ticks, labels, i + 1, lower, upper)

\* for tick, label in zip(ticks(), labels()): the first labelled tick is
\* lower, every later one overwrites upper.
RECURSIVE scan_ticks(_, _, _, _, _)
scan_ticks(ticks, labels, i, lower, upper) ==
    IF i > Min(Len(ticks), Len(labels)) THEN [lower |-> lower, upper |-> upper]
    ELSE IF labels[i] # EmptyText
         THEN IF lower = NoVal
              THEN scan_ticks(ticks, labels, i + 1, <<ticks[i]>>, upper)
              ELSE scan_ticks(ticks, labels, i + 1, lower, <<ticks[i]>>)
         ELSE scan_ticks(ticks, labels, i + 1, lower, upper)

\* get_bounds on the attributes of one axes.  A spine's bounds are None or
\* a pair, and a pair is true in Python whatever its numbers.
axis_bounds(A, axis) ==
    LET m == axis_map(A, axis) IN
    IF A.spine_bounds[m.spine_key] # NoVal
    THEN A.spine_bounds[m.spine_key]
    ELSE LET s == scan_ticks(m.ticks, m.labels, 1, NoVal, NoVal) IN
         IF s.lower = NoVal \/ s.upper = NoVal
         THEN m.limits
         ELSE <<s.lower[1], s.upper[1]>>

\* get_bounds(axis, ax=None): not wrapped; ax=None binds to plt.gca().
get_bounds(W, axis, ax) ==
    LET r == IF ax = None THEN plt_gca(W) ELSE [W |-> W, val |-> ax] IN
    [W |-> r.W, kw |-> Kwargs(r.val, None), fret |-> axis_bounds(r.W.art[r.val], axis),
     ret |-> axis_bounds(r.W.art[r.val], axis)]

\* factor * rng, for a factor of `factor` Unit-ths.
times(factor, rng) == (factor * rng) \div Unit

\* The x padding taken from the current limits, not from get_bounds.
pad_x_from_limits(A, factor) ==
    LET xa == A.xlim[1]
        xb == A.xlim[2]
        xrng == xb - xa
    IN [A EXCEPT !.xlim = <<xa - times(factor, xrng), xb + times(factor, xrng)>>,
                 !.spine_bounds["bottom"] = <<xa, xb>>]

pad_x(A, factor) ==
    LET b == axis_bounds(A, "x")
        xa == b[1]
        xb == b[2]
        xrng == xb - xa
    IN [A EXCEPT !.xlim = <<xa - times(factor, xrng), xb + times(factor, xrng)>>,
                 !.spine_bounds["bottom"] = <<xa, xb>>]

\* The y step with get_bounds('x') left in from the x step.
pad_y_from_x(A, factor) ==
    LET b == axis_bounds(A, "x")
        ya == b[1]
        yb == b[2]
        yrng == yb - ya
    IN [A EXCEPT !.ylim = <<ya - times(factor, yrng), yb + times(factor, yrng)>>,
                 !.spine_bounds["left"] = <<ya, yb>>]

pad_y(A, factor) ==
    LET b == axis_bounds(A, "y")
        ya == b[1]
        yb == b[2]
        yrng == yb - ya
    IN [A EXCEPT !.ylim = <<ya - times(factor, yrng), yb + times(factor, yrng)>>,
                 !.spine_bounds["left"] = <<ya, yb>>]

\* breathe without its call of tickdir.
breathe_body_no_tickdir(W, kw, factor, direction, disabled) ==
    LET A == pad_y(pad_x(W.art[kw.ax], factor), factor)
        W1 == [W EXCEPT !.art[kw.ax] = A]
        r1 == nospines(W1, kw, disabled)
    IN [W |-> r1.W, ret |-> kw.ax]

\* breathe's kwargs go on to nospines and tickdir: spine flags the caller put
\* in them reach nospines (`disabled`; DefaultFlags when there are none).
breathe_body(W, kw, factor, direction, disabled) ==
    LET A == pad_y(pad_x(W.art[kw.ax], factor), factor)
        W1 == [W EXCEPT !.art[kw.ax] = A]
        r1 == nospines(W1, kw, disabled)
        r2 == tickdir(r1.W, kw, direction)
    IN [W |-> r2.W, ret |-> kw.ax]

breathe(W, kw, factor, direction, disabled) ==
    LET r == axwrapper_kwargs(W, kw) IN
    wrapper_return(breathe_body(r.W, r.kw, factor, direction, disabled), r.kw)

\* ------------------------------------------------------------- actions

\* One call of a public function: the world after it, and in `last` the ax
\* and fig the caller gave, the ax and fig the function body saw, and what
\* the caller got back (an axes handle, or the pair of get_bounds).  No more figures or axes are made than the bounds.
Do(fun, given, r, ret, bounds) ==
    /\ Cardinality(r.W.plt.figs) <= MaxFigs
    /\ Cardinality(DOMAIN r.W.plt.axfig) <= MaxAxes
    /\ plt' = r.W.plt
    /\ art' = r.W.art
    /\ last' = [fun |-> fun, given |-> given, ax |-> r.kw.ax, fig |-> r.kw.fig,
                ret |-> ret, bounds |-> bounds]

\* What a caller can pass: a handle it holds, or nothing.
AxArgs == {None} \cup Axes(plt)
FigArgs == {None} \cup Figures(plt)

call_setfontsize(axs, figs, sizes) ==
    \E ax \in axs, fig \in figs, size \in sizes :
        \E r \in {setfontsize(World(plt, art), Kwargs(ax, fig), size)} :
            Do("setfontsize", Kwargs(ax, fig), r, r.ret, NoVal)

call_noticks(axs, figs) ==
    \E ax \in axs, fig \in figs :
        \E r \in {noticks(World(plt, art), Kwargs(ax, fig))} :
            Do("noticks", Kwargs(ax, fig), r, r.ret, NoVal)

call_nospines(axs, figs, flags) ==
    \E ax \in axs, fig \in figs, disabled \in flags :
        \E r \in {nospines(World(plt, art), Kwargs(ax, fig), disabled)} :
            Do("nospines", Kwargs(ax, fig), r, r.ret, NoVal)

call_get_bounds(axs) ==
    \E axis \in {"x", "y"}, ax \in axs :
        \E r \in {get_bounds(World(plt, art), axis, ax)} :
            Do("get_bounds", Kwargs(ax, None), r, None, r.ret)

call_breathe(axs, figs, factors, directions, flags) ==
    \E ax \in axs, fig \in figs, factor \in factors, direction \in directions,
       disabled \in flags :
        \E r \in {breathe(World(plt, art), Kwargs(ax, fig), factor, direction, disabled)} :
            Do("breathe", Kwargs(ax, fig), r, r.ret, NoVal)

call_tickdir(axs, figs, directions) ==
    \E ax \in axs, fig \in figs, direction \in directions :
        \E r \in {tickdir(World(plt, art), Kwargs(ax, fig), direction)} :
            Do("tickdir", Kwargs(ax, fig), r, r.ret, NoVal)

call_setcolor(axs, figs, colors) ==
    \E ax \in axs, fig \in figs, color \in colors :
        \E r \in {setcolor(World(plt, art), Kwargs(ax, fig), color)} :
            Do("setcolor", Kwargs(ax, fig), r, r.ret, NoVal)

\* Calls are counted up to MaxCalls where figures and axes can be made
\* (each call may add one of each); on a fixed set of axes they are not.
Counted == calls < MaxCalls /\ calls' = calls + 1
Uncounted == calls' = calls

NoCall == [fun |-> "", given |-> Kwargs(None, None), ax |-> None, fig |-> None, ret |-> None, bounds |-> NoVal]

\* ----------------------------------------- Spec: figures and axes handles
\* pyplot starts with no figure; every function is called with its default
\* arguments and with any combination of ax and fig given or left out.

Init ==
    /\ plt = [figs |-> {}, axfig |-> <<>>, gcf |-> None, gca |-> <<>>]
    /\ art = <<>>
    /\ last = NoCall
    /\ calls = 0

SetFontSize == Counted /\ call_setfontsize(AxArgs, FigArgs, {DefaultSize})
NoTicks == Counted /\ call_noticks(AxArgs, FigArgs)
NoSpines == Counted /\ call_nospines(AxArgs, FigArgs, {DefaultFlags})
GetBounds == Counted /\ call_get_bounds(AxArgs)
Breathe == Counted /\ call_breathe(AxArgs, FigArgs, {DefaultFactor}, {DefaultDirection}, {DefaultFlags})
TickDir == Counted /\ call_tickdir(AxArgs, FigArgs, {DefaultDirection})
SetColor == Counted /\ call_setcolor(AxArgs, FigArgs, {DefaultColor})

Next ==
    \/ SetFontSize
    \/ NoTicks
    \/ NoSpines
    \/ GetBounds
    \/ Breathe
    \/ TickDir
    \/ SetColor

Spec == Init /\ [][Next]_vars

\* ------------------------------------- SpecAx: one axes, every spine flag
\* One figure with one new axes, which is pyplot's current one.  The helpers
\* are called on it (ax given, fig left out) with every combination of the
\* spine flags and both tick directions.

OneAxes(A) ==
    /\ plt = [figs |-> {1}, axfig |-> <<1>>, gcf |-> 1, gca |-> <<1>>]
    /\ art = <<A>>
    /\ last = NoCall
    /\ calls = 0

InitAx == OneAxes(FreshAxis)

Directions == {"in", "out"}
\* Spine flags in the kwargs of breathe: none, or some that differ from the defaults.
PassedFlags ==
    { DefaultFlags,
      [left |-> TRUE, bottom |-> FALSE, top |-> FALSE, right |-> FALSE],
      [left |-> TRUE, bottom |-> TRUE, top |-> TRUE, right |-> TRUE] }

SetFontSizeAx == Uncounted /\ call_setfontsize(Axes(plt), {None}, {DefaultSize})
NoTicksAx == Uncounted /\ call_noticks(Axes(plt), {None})
NoSpinesAx == Uncounted /\ call_nospines(Axes(plt), {None}, AllFlags)
GetBoundsAx == Uncounted /\ call_get_bounds(Axes(plt))
BreatheAx == Uncounted /\ call_breathe(Axes(plt), {None}, {DefaultFactor}, Directions, PassedFlags)
TickDirAx == Uncounted /\ call_tickdir(Axes(plt), {None}, Directions)
SetColorAx == Uncounted /\ call_setcolor(Axes(plt), {None}, {DefaultColor})

NextAx ==
    \/ SetFontSizeAx
    \/ NoTicksAx
    \/ NoSpinesAx
    \/ GetBoundsAx
    \/ BreatheAx
    \/ TickDirAx
    \/ SetColorAx

SpecAx == InitAx /\ [][NextAx]_vars

\* ------------------------------- SpecBounds: one axes, any ticks and labels
\* One figure with one axes as a caller may have left it: up to MaxTicks
\* ticks at 2, 5, 8, ..., each with or without a label text, limits (0, 10)
\* for x and (-2, 12) for y, and the bottom or left spine with or without
\* explicit bounds.  One
\* of x and y takes every such configuration, the other a few of them.

TickAt(i) == Pos(3 * i - 1)
Ticks(n) == [i \in 1..n |-> TickAt(i)]
Labellings(n) == [1..n -> BOOLEAN]
Labels(n, on) == [i \in 1..n |-> IF on[i] THEN str(TickAt(i)) ELSE EmptyText]
WideLimits == <<Pos(0), Pos(10)>>
TallLimits == <<Pos(-2), Pos(12)>>
SomeBounds == {NoVal, <<Pos(3), Pos(7)>>, <<Pos(0), Pos(0)>>}

AxisConfigs ==
    { [ticks |-> Ticks(n), labels |-> Labels(n, on), bounds |-> b] :
        n \in 0..MaxTicks, on \in Labellings(MaxTicks), b \in SomeBounds }

RichConfigs == AxisConfigs
PlainConfigs ==
    { c \in RichConfigs :
        /\ c.bounds = NoVal
        /\ Len(c.ticks) \in {0, MaxTicks}
        /\ \A i, j \in 1..Len(c.labels) : (c.labels[i] = EmptyText) = (c.labels[j] = EmptyText) }

Configured(cx, cy) ==
    [FreshAxis EXCEPT !.xticks = cx.ticks, !.xlabels = cx.labels, !.xlim = WideLimits,
                      !.spine_bounds["bottom"] = cx.bounds,
                      !.yticks = cy.ticks, !.ylabels = cy.labels, !.ylim = TallLimits,
                      !.spine_bounds["left"] = cy.bounds]

InitBounds ==
    \E cx \in RichConfigs, cy \in RichConfigs :
        /\ cx \in PlainConfigs \/ cy \in PlainConfigs
        /\ OneAxes(Configured(cx, cy))

\* 0, 0.05, 0.1 and 0.5
Factors == {0, DefaultFactor, 2 * DefaultFactor, 10 * DefaultFactor}

SetFontSizeB == Uncounted /\ call_setfontsize(Axes(plt), {None}, {DefaultSize})
NoTicksB == Uncounted /\ call_noticks(Axes(plt), {None})
NoSpinesB == Uncounted /\ call_nospines(Axes(plt), {None}, {DefaultFlags})
GetBoundsB == Uncounted /\ call_get_bounds(Axes(plt))
BreatheB == Uncounted /\ call_breathe(Axes(plt), {None}, Factors, {DefaultDirection}, {DefaultFlags})
TickDirB == Uncounted /\ call_tickdir(Axes(plt), {None}, {DefaultDirection})
SetColorB == Uncounted /\ call_setcolor(Axes(plt), {None}, {DefaultColor})

NextBounds ==
    \/ SetFontSizeB
    \/ NoTicksB
    \/ NoSpinesB
    \/ GetBoundsB
    \/ BreatheB
    \/ TickDirB
    \/ SetColorB

SpecBounds == InitBounds /\ [][NextBounds]_vars

\* ------------------------------------------------------------ properties

WrappedFuns == {"setfontsize", "noticks", "nospines", "breathe", "tickdir", "setcolor"}
NeverCreating == {"noticks", "nospines", "breathe", "tickdir", "setcolor", "get_bounds"}

Sizes == {12, DefaultSize}
Colors == {DefaultColor, "#ff0000"}

Hidden(A, side) == A.spine_color[side] = "none"

\* The ticks of axis "x" or "y" that carry a text, by index.
TicksOf(A, axis) == IF axis = "x" THEN A.xticks ELSE A.yticks
LabelsOf(A, axis) == IF axis = "x" THEN A.xlabels ELSE A.ylabels
LimitsOf(A, axis) == IF axis = "x" THEN A.xlim ELSE A.ylim
SpineBoundsOf(A, axis) == A.spine_bounds[IF axis = "x" THEN "bottom" ELSE "left"]
Labelled(A, axis) == {i \in DOMAIN TicksOf(A, axis) : LabelsOf(A, axis)[i] # EmptyText}
First(S) == CHOOSE i \in S : \A j \in S : i <= j
Final(S) == CHOOSE i \in S : \A j \in S : j <= i

\* C1: every call of a wrapped function hands the function a figure and an
\* axes that exist (never None), returns to the caller exactly that axes (not
\* the function's own return value), and changes no other axes than the one
\* returned, whichever of ax and fig the caller gave.
C1_WrapperContract ==
    [][ last'.fun \in WrappedFuns =>
          /\ last'.fig \in Figures(plt')
          /\ last'.ax \in Axes(plt')
          /\ last'.ret = last'.ax
          /\ \A a \in Axes(plt) \ {last'.ret} : art'[a] = art[a] ]_vars

\* noticks() with neither ax nor fig, while axes 2 is the current one: it
\* cleared the ticks of axes 2 and returned 2, though noticks itself returns None.
C1_Witness ==
    /\ last.fun = "noticks"
    /\ last.given = Kwargs(None, None)
    /\ last.ret = 2
    /\ art[2].xticks = <<>>
    /\ art[1].xticks # <<>>

\* C2 (as claimed): figures and axes are made only by setfontsize, which makes
\* a figure only when ax and fig are both left out and exactly one axes, on the
\* figure it resolved, exactly when ax is left out; the other functions never
\* make a figure or an axes; nothing is ever destroyed.
C2_CreateOnlyIfAbsent ==
    [][ /\ Figures(plt) \subseteq Figures(plt')
        /\ \A a \in Axes(plt) : a \in Axes(plt') /\ plt'.axfig[a] = plt.axfig[a]
        /\ last'.fun \in NeverCreating =>
              Figures(plt') = Figures(plt) /\ Axes(plt') = Axes(plt)
        /\ last'.fun = "setfontsize" =>
              /\ (Figures(plt') # Figures(plt))
                    <=> (last'.given.ax = None /\ last'.given.fig = None)
              /\ Cardinality(Axes(plt') \ Axes(plt)) = (IF last'.given.ax = None THEN 1 ELSE 0)
              /\ \A a \in Axes(plt') \ Axes(plt) : plt'.axfig[a] = last'.fig ]_vars

\* C10 (as claimed): when the caller gives at most one of ax and fig, the
\* figure handed to the wrapped function is the figure of the axes handed to it.
C10_FigureContainsAxis ==
    (last.fun \in WrappedFuns /\ (last.given.ax = None \/ last.given.fig = None))
        => plt.axfig[last.ax] = last.fig

\* C3: for every combination of the four flags, nospines makes exactly the
\* flagged spines invisible and leaves the colour of the others; x-ticks are
\* removed when top and bottom are both set, put at the bottom when only top
\* is, at the top when only bottom is, and untouched when neither is; the
\* y-axis likewise with right/left.  With the defaults on a new axes: left
\* and bottom stay drawn, top and right are hidden, x-ticks at the bottom,
\* y-ticks at the left.
C3_NospinesFlags ==
    \A a \in Axes(plt), fl \in AllFlags :
        LET A == art[a]
            B == nospines(World(plt, art), Kwargs(a, None), fl).W.art[a]
        IN /\ \A s \in Sides : Hidden(B, s) = (fl[s] \/ Hidden(A, s))
           /\ \A s \in Sides : ~fl[s] => B.spine_color[s] = A.spine_color[s]
           /\ (fl.top /\ fl.bottom) => B.xticks = <<>> /\ B.xlabels = <<>> /\ B.xpos = A.xpos
           /\ (fl.top /\ ~fl.bottom) => B.xpos = "bottom" /\ B.xticks = A.xticks
           /\ (~fl.top /\ fl.bottom) => B.xpos = "top" /\ B.xticks = A.xticks
           /\ (~fl.top /\ ~fl.bottom) =>
                 B.xpos = A.xpos /\ B.xticks = A.xticks /\ B.xlabels = A.xlabels
           /\ (fl.left /\ fl.right) => B.yticks = <<>> /\ B.ylabels = <<>> /\ B.ypos = A.ypos
           /\ (fl.right /\ ~fl.left) => B.ypos = "left" /\ B.yticks = A.yticks
           /\ (~fl.right /\ fl.left) => B.ypos = "right" /\ B.yticks = A.yticks
           /\ (~fl.left /\ ~fl.right) =>
                 B.ypos = A.ypos /\ B.yticks = A.yticks /\ B.ylabels = A.ylabels
           /\ (A = FreshAxis /\ fl = DefaultFlags) =>
                 /\ ~Hidden(B, "left") /\ ~Hidden(B, "bottom")
                 /\ Hidden(B, "top") /\ Hidden(B, "right")
                 /\ B.xpos = "bottom" /\ B.ypos = "left"

\* nospines() with the defaults has acted on a new axes.
C3_Witness ==
    /\ last.fun = "nospines"
    /\ art[1] = [FreshAxis EXCEPT !.spine_color["top"] = "none",
                                  !.spine_color["right"] = "none",
                                  !.xpos = "bottom", !.ypos = "left"]

\* C4: get_bounds returns the explicit bounds of the bottom (x) or left (y)
\* spine when the spine has them, whatever the ticks, labels and limits; with
\* none, and at least two ticks with a non-empty label, it returns the
\* positions of the first and of the last such tick; and it changes nothing.
C4_GetBounds ==
    \A a \in Axes(plt), axis \in {"x", "y"} :
        LET A == art[a]
            r == get_bounds(World(plt, art), axis, a)
            L == Labelled(A, axis)
        IN /\ r.W = World(plt, art)
           /\ SpineBoundsOf(A, axis) # NoVal => r.ret = SpineBoundsOf(A, axis)
           /\ (SpineBoundsOf(A, axis) = NoVal /\ Cardinality(L) >= 2) =>
                 r.ret = <<TicksOf(A, axis)[First(L)], TicksOf(A, axis)[Final(L)]>>

\* get_bounds('x') returned (2, 8) on ticks 2, 5, 8 labelled at 2 and 8 only.
C4_Witness ==
    /\ last.fun = "get_bounds"
    /\ last.bounds = <<Pos(2), Pos(8)>>
    /\ art[1].xticks = <<Pos(2), Pos(5), Pos(8)>>
    /\ Labelled(art[1], "x") = {1, 3}
    /\ art[1].spine_bounds["bottom"] = NoVal
    /\ Labelled(art[1], "y") = {}

\* C5: with no explicit spine bounds and fewer than two ticks with a
\* non-empty label (no tick, no label, or one labelled tick), get_bounds
\* returns the limits of the axis, never (p, p) for a single labelled tick p.
C5_FallbackToLimits ==
    \A a \in Axes(plt), axis \in {"x", "y"} :
        LET A == art[a]
            r == get_bounds(World(plt, art), axis, a)
        IN (SpineBoundsOf(A, axis) = NoVal /\ Cardinality(Labelled(A, axis)) < 2) =>
              r.ret = LimitsOf(A, axis)

\* get_bounds('y') returned the limits on ticks of which only the one at 5 is labelled.
C5_Witness ==
    /\ last.fun = "get_bounds"
    /\ last.bounds = TallLimits
    /\ art[1].yticks = <<Pos(2), Pos(5), Pos(8)>>
    /\ Labelled(art[1], "y") = {2}
    /\ art[1].spine_bounds["left"] = NoVal
    /\ art[1].ylim = TallLimits

\* C6: breathe(factor=f) sets the limits of x and of y to the bounds that
\* get_bounds gave before the call padded by f times their range on each
\* side, and the bounds of the bottom and left spines to the unpadded bounds
\* (factor f is f/Unit, hence the products).
C6_BreathePads ==
    \A a \in Axes(plt), f \in Factors, d \in Directions :
        LET W == World(plt, art)
            bx == get_bounds(W, "x", a).ret
            by == get_bounds(W, "y", a).ret
            B == breathe(W, Kwargs(a, None), f, d, DefaultFlags).W.art[a]
        IN /\ Unit * B.xlim[1] = Unit * bx[1] - f * (bx[2] - bx[1])
           /\ Unit * B.xlim[2] = Unit * bx[2] + f * (bx[2] - bx[1])
           /\ B.spine_bounds["bottom"] = bx
           /\ Unit * B.ylim[1] = Unit * by[1] - f * (by[2] - by[1])
           /\ Unit * B.ylim[2] = Unit * by[2] + f * (by[2] - by[1])
           /\ B.spine_bounds["left"] = by

\* breathe(factor=0.1) on x bounds (0, 10): limits (-1, 11), spine bound (0, 10);
\* the y bounds were the labelled ticks 2 and 8.
C6_Witness ==
    /\ last.fun = "breathe"
    /\ art[1].xlim = <<Pos(-1), Pos(11)>>
    /\ art[1].spine_bounds["bottom"] = <<Pos(0), Pos(10)>>
    /\ art[1].spine_bounds["left"] = <<Pos(2), Pos(8)>>
    /\ 10 * art[1].ylim[1] = 10 * Pos(2) - (Pos(8) - Pos(2))

\* C7: each styling function is idempotent on a given axes: from every
\* reachable state and for every argument, calling it a second time with the
\* same arguments and the same ax leaves the world as the first call left it.
C7_Idempotent ==
    \A a \in Axes(plt) :
        LET W == World(plt, art)
            kw == Kwargs(a, None)
        IN /\ \A size \in Sizes :
                 LET r == setfontsize(W, kw, size) IN setfontsize(r.W, kw, size).W = r.W
           /\ LET r == noticks(W, kw) IN noticks(r.W, kw).W = r.W
           /\ \A fl \in AllFlags :
                 LET r == nospines(W, kw, fl) IN nospines(r.W, kw, fl).W = r.W
           /\ \A f \in Factors, d \in Directions, fl \in PassedFlags :
                 LET r == breathe(W, kw, f, d, fl) IN breathe(r.W, kw, f, d, fl).W = r.W
           /\ \A d \in Directions :
                 LET r == tickdir(W, kw, d) IN tickdir(r.W, kw, d).W = r.W
           /\ \A c \in Colors :
                 LET r == setcolor(W, kw, c) IN setcolor(r.W, kw, c).W = r.W

\* breathe(factor=0.5) has padded the x bounds (2, 8) to the limits (-1, 11),
\* which differ from the bounds, and a second breathe(factor=0.5) changes nothing.
C7_Witness ==
    /\ last.fun = "breathe"
    /\ art[1].spine_bounds["bottom"] = <<Pos(2), Pos(8)>>
    /\ art[1].xlim = <<Pos(-1), Pos(11)>>
    /\ breathe(World(plt, art), Kwargs(1, None), 10 * DefaultFactor, DefaultDirection,
               DefaultFlags).W.art = art

\* C8: breathe(direction=d), with no spine flag in its kwargs, ends with
\* nospines' defaults and tickdir(d) applied to the axes it padded: top and
\* right are hidden, left and bottom are as before the call, x-ticks are at
\* the bottom and y-ticks at the left, and both tick directions are d.
C8_BreatheFinishes ==
    \A a \in Axes(plt), f \in Factors, d \in Directions :
        LET A == art[a]
            B == breathe(World(plt, art), Kwargs(a, None), f, d, DefaultFlags).W.art[a]
        IN /\ Hidden(B, "top") /\ Hidden(B, "right")
           /\ B.spine_color["left"] = A.spine_color["left"]
           /\ B.spine_color["bottom"] = A.spine_color["bottom"]
           /\ B.xpos = "bottom" /\ B.ypos = "left"
           /\ B.xdir = d /\ B.ydir = d
           /\ B.spine_bounds["bottom"] # NoVal /\ B.spine_bounds["left"] # NoVal

\* breathe(direction='in') has acted after the left spine had been hidden and
\* the y-ticks moved to the right by an earlier nospines(left=True, ...).
C8_Witness ==
    /\ last.fun = "breathe"
    /\ Hidden(art[1], "left") /\ Hidden(art[1], "top") /\ Hidden(art[1], "right")
    /\ ~Hidden(art[1], "bottom")
    /\ art[1].yticks # <<>>
    /\ art[1].xpos = "bottom" /\ art[1].ypos = "left"
    /\ art[1].xdir = "in" /\ art[1].ydir = "in"

\* C9: a spine that is hidden stays hidden across every call of the module.
C9_HiddenStaysHidden ==
    [][ \A a \in Axes(plt), s \in Sides : Hidden(art[a], s) => Hidden(art'[a], s) ]_vars

\* The left spine is hidden, and a later nospines with left=False (it put the
\* y-ticks at the left, which takes right=True and left=False) was the last call.
C9_Witness ==
    /\ last.fun = "nospines"
    /\ Hidden(art[1], "left")
    /\ art[1].ypos = "left"
    /\ art[1].yticks # <<>>
    /\ ~Hidden(art[1], "bottom")

====
